---- MODULE Spec2Model ----
(***************************************************************************)
(* hot_ingest (ingest/hot_ingest/src/main.rs): the ingest loop that reads  *)
(* raw records from a file or a websocket, wraps each one in an envelope   *)
(* carrying a local sequence number, and publishes it to NATS, either with *)
(* core publish + flush or with a JetStream publish.                       *)
(*                                                                         *)
(* One state of the model is one point of the single future that is main:  *)
(* pc names the await main is suspended at.  The source (file content      *)
(* or websocket frames) is fixed by Init; the outcomes of the calls on the *)
(* NATS client are chosen by the environment when the call is made.        *)
(* price, qty, ts_local_us and the msgpack bytes of the envelope do not    *)
(* influence control flow, the subject or the counter and are left out.    *)
(***************************************************************************)
EXTENDS Integers, Sequences, FiniteSets, TLC

\* Largest number of items (lines or frames) the source yields before it ends.
MaxLen == 3

(***************************************************************************)
(* Raw texts                                                               *)
(***************************************************************************)
EMPTY_LINE == ""
SPACES_LINE == "  "
NOT_JSON == "not json"
BTC_LINE == "{\"symbol\":\"BTC\",\"price\":50000.1,\"qty\":0.5}"
QTY_LINE == "{\"qty\":2}"
NULL_LINE == "{\"symbol\":null}"
NUM_LINE == "{\"symbol\":7}"
EMPTYSYM_LINE == "{\"symbol\":\"\"}"
\* What from_utf8_lossy makes of a payload that is not UTF-8: U+FFFD.
REPLACEMENT_TEXT == "<U+FFFD>"

Texts ==
    {EMPTY_LINE, SPACES_LINE, NOT_JSON, BTC_LINE, QTY_LINE, NULL_LINE,
     NUM_LINE, EMPTYSYM_LINE}

\* Binary payloads: the UTF-8 bytes of BTC_LINE, and the single byte 0xFF.
BIN_BTC == "bytes:BTC_LINE"
BIN_FF == "bytes:FF"
Payloads == {BIN_BTC, BIN_FF}

(***************************************************************************)
(* serde_json values, as far as the program looks into them: whether the   *)
(* document is an object, and its "symbol" member.                         *)
(***************************************************************************)
JAbsent == [t |-> "absent", s |-> ""]
JNull == [t |-> "null", s |-> ""]
JNum == [t |-> "num", s |-> ""]
JStr(x) == [t |-> "str", s |-> x]

JObject(sym) == [symbol |-> sym]

ParseOk(v) == [ok |-> TRUE, v |-> v]
ParseErr == [ok |-> FALSE, v |-> JObject(JAbsent)]

\* serde_json::from_str on the texts of the model.
from_str(text) ==
    CASE text = BTC_LINE -> ParseOk(JObject(JStr("BTC")))
      [] text = QTY_LINE -> ParseOk(JObject(JAbsent))
      [] text = NULL_LINE -> ParseOk(JObject(JNull))
      [] text = NUM_LINE -> ParseOk(JObject(JNum))
      [] text = EMPTYSYM_LINE -> ParseOk(JObject(JStr("")))
      [] OTHER -> ParseErr

\* line.is_empty(): the trim left out
is_empty_untrimmed(line) == line = EMPTY_LINE

\* line.trim().is_empty()
trim_is_empty(line) == line \in {EMPTY_LINE, SPACES_LINE}

\* String::from_utf8_lossy(bytes).to_string()
from_utf8_lossy(bytes) ==
    IF bytes = BIN_BTC THEN BTC_LINE ELSE REPLACEMENT_TEXT

\* .and_then(|s| s.as_str()).unwrap_or(dflt) applied to the result of get()
as_str_or(j, dflt) == IF j.t = "str" THEN j.s ELSE dflt

\* v.get("symbol").and_then(|s| s.as_str()).unwrap_or("UNKNOWN").to_string()
symbol_of(v) == as_str_or(v.symbol, "UNKNOWN")

\* serde_json::json!({"symbol": symbol, ..., "seq_local": seq, "raw": v})
envelope_of(v, s) ==
    [symbol |-> JStr(symbol_of(v)), seq_local |-> s, raw |-> v]

\* The subject built from the raw document's symbol, not the envelope's
subj_of_raw(prefix, envelope) ==
    prefix \o "." \o envelope.raw.symbol.s

\* format!("{}.{}", subj_prefix, envelope.get("symbol")...unwrap_or("UNKNOWN"))
subj_of(prefix, envelope) ==
    prefix \o "." \o as_str_or(envelope.symbol, "UNKNOWN")

\* seq += 2
next_seq_twice(s) == s + 2

\* The increment left out
next_seq_stuck(s) == s

\* seq -= 1
next_seq_down(s) == s - 1

\* seq += 1
next_seq(s) == s + 1

(***************************************************************************)
(* Sources                                                                 *)
(***************************************************************************)
Item(k, d) == [kind |-> k, data |-> d]

\* next_line() yields a line, or fails with an I/O error.
FileItems == {Item("line", t) : t \in Texts} \cup {Item("err", "")}

\* read.next() yields a text, binary or control frame, or fails.
WsItems ==
    {Item("text", t) : t \in Texts} \cup {Item("binary", b) : b \in Payloads}
        \cup {Item("control", ""), Item("err", "")}

SeqsUpTo(S, n) == UNION {[1..k -> S] : k \in 0..n}

Prefixes == {"mexc.raw"}

NoEnvelope == [symbol |-> JAbsent, seq_local |-> -1, raw |-> JObject(JAbsent)]

VARIABLES
    mode,         \* args.mode: "file" or "ws"
    jetstream,    \* args.jetstream
    subj_prefix,  \* args.subj_prefix
    source,       \* what the file or the websocket yields, in order
    pos,          \* number of items pulled from the source so far
    seq,          \* the loop's counter
    pc,           \* the await main is at
    envelope,     \* the envelope of the record being published
    subj,         \* its subject
    reply,        \* the broker's answer to the pending JetStream publish
    bus,          \* publish calls made on the client, in order
    flushes,      \* rec of each flush call made on the client, in order
    answers,      \* the broker's answers to JetStream publishes, in order
    log,          \* lines printed, in order
    exit          \* "running", "ok" (main returned Ok) or "err"

vars ==
    <<mode, jetstream, subj_prefix, source, pos, seq, pc, envelope, subj,
      reply, bus, flushes, answers, log, exit>>

LogLine(k, s, sj, r) == [kind |-> k, seq_local |-> s, subj |-> sj, rec |-> r]
Answer(s, a) == [seq_local |-> s, ack |-> a]
Attempt(api, sj, env, r) ==
    [api |-> api, subj |-> sj, symbol |-> env.symbol.s,
     seq_local |-> env.seq_local, rec |-> r]

Init ==
    /\ mode \in {"file", "ws"}
    /\ jetstream \in BOOLEAN
    /\ subj_prefix \in Prefixes
    /\ source \in SeqsUpTo(IF mode = "file" THEN FileItems ELSE WsItems, MaxLen)
    /\ pos = 0
    /\ seq = 0
    /\ pc = "connect"
    /\ envelope = NoEnvelope
    /\ subj = ""
    /\ reply = "none"
    /\ bus = <<>>
    /\ flushes = <<>>
    /\ answers = <<>>
    /\ log = <<>>
    /\ exit = "running"

\* An Err that main swallows: the process reports it and exits with status 0
Fatal_exit_ok(r) ==
    /\ pc' = "done"
    /\ exit' = "ok"
    /\ log' = Append(log, LogLine("FATAL", -1, "", r))

\* An Err that reaches main: main returns it, the runtime prints it and the
\* process exits with a non-zero status.
Fatal(r) ==
    /\ pc' = "done"
    /\ exit' = "err"
    /\ log' = Append(log, LogLine("FATAL", -1, "", r))

\* The connection error reported and not returned: main goes on to the source
Connect_goes_on ==
    /\ pc = "connect"
    /\ \E ok \in BOOLEAN :
        /\ pc' = "open"
        /\ log' = IF ok THEN log
                  ELSE Append(log, LogLine("FATAL", -1, "", 0))
        /\ UNCHANGED exit
    /\ UNCHANGED <<mode, jetstream, subj_prefix, source, pos, seq, envelope,
                   subj, reply, bus, flushes, answers>>

\* async_nats::connect(&args.nats_url).await?
Connect ==
    /\ pc = "connect"
    /\ \E ok \in BOOLEAN :
        IF ok
        THEN /\ pc' = "open"
             /\ UNCHANGED <<log, exit>>
        ELSE Fatal(0)
    /\ UNCHANGED <<mode, jetstream, subj_prefix, source, pos, seq, envelope,
                   subj, reply, bus, flushes, answers>>

(***************************************************************************)
(* run_file_mode                                                           *)
(***************************************************************************)
\* File::open(file_path).await?, then the reader and seq = 0
FileOpen ==
    /\ pc = "open"
    /\ mode = "file"
    /\ \E ok \in BOOLEAN :
        IF ok
        THEN /\ pc' = "next"
             /\ UNCHANGED <<log, exit>>
        ELSE Fatal(0)
    /\ UNCHANGED <<mode, jetstream, subj_prefix, source, pos, seq, envelope,
                   subj, reply, bus, flushes, answers>>

\* One pass from the loop head to the publish call: next_line, the blank
\* test, from_str, the envelope and the subject.
FileNext ==
    /\ pc = "next"
    /\ mode = "file"
    /\ IF pos = Len(source)
       THEN \* Ok(None): the loop ends and run_file_mode returns Ok(())
            /\ pc' = "done"
            /\ exit' = "ok"
            /\ UNCHANGED <<pos, log, envelope, subj>>
       ELSE LET item == source[pos + 1]
                parsed == from_str(item.data)
                env == envelope_of(parsed.v, seq)
            IN  /\ pos' = pos + 1
                /\ CASE item.kind = "err" ->
                          \* next_line().await? fails
                          /\ Fatal(pos + 1)
                          /\ UNCHANGED <<envelope, subj>>
                     [] item.kind # "err" /\ trim_is_empty(item.data) ->
                          \* continue
                          UNCHANGED <<pc, exit, log, envelope, subj>>
                     [] item.kind # "err" /\ ~trim_is_empty(item.data)
                            /\ ~parsed.ok ->
                          \* serde_json::from_str(&line)? fails
                          /\ Fatal(pos + 1)
                          /\ UNCHANGED <<envelope, subj>>
                     [] OTHER ->
                          /\ envelope' = env
                          /\ subj' = subj_of(subj_prefix, env)
                          /\ pc' = "publish"
                          /\ UNCHANGED <<log, exit>>
    /\ UNCHANGED <<mode, jetstream, subj_prefix, source, seq, reply, bus,
                   flushes, answers>>

\* js.publish(subj.clone(), packed.into()) is called and awaited
FileJsPublish ==
    /\ pc = "publish"
    /\ mode = "file"
    /\ jetstream
    /\ bus' = Append(bus, Attempt("js", subj, envelope, pos))
    /\ pc' = "ack"
    /\ UNCHANGED <<mode, jetstream, subj_prefix, source, pos, seq, envelope,
                   subj, reply, flushes, answers, log, exit>>

\* An error of the JetStream publish answered with another try of the same
\* envelope
FileJsResult_retry ==
    /\ pc = "ack"
    /\ mode = "file"
    /\ reply # "none"
    /\ log' = Append(log,
                LogLine(IF reply = "ack" THEN "JET_ACK"
                        ELSE "JET_PUBLISH_ERROR",
                        seq, subj, pos))
    /\ reply' = "none"
    /\ IF reply = "ack"
       THEN /\ seq' = next_seq(seq)
            /\ envelope' = NoEnvelope
            /\ subj' = ""
            /\ pc' = "next"
       ELSE /\ pc' = "publish"
            /\ UNCHANGED <<seq, envelope, subj>>
    /\ UNCHANGED <<mode, jetstream, subj_prefix, source, pos, bus, flushes,
                   answers, exit>>

\* The result handled as soon as the request is out, the answer not awaited
FileJsResult_nowait ==
    /\ pc = "ack"
    /\ mode = "file"
    /\ log' = Append(log,
                LogLine(IF reply = "err" THEN "JET_PUBLISH_ERROR"
                        ELSE "JET_ACK",
                        seq, subj, pos))
    /\ seq' = next_seq(seq)
    /\ reply' = "none"
    /\ envelope' = NoEnvelope
    /\ subj' = ""
    /\ pc' = "next"
    /\ UNCHANGED <<mode, jetstream, subj_prefix, source, pos, bus, flushes,
                   answers, exit>>

\* The match on the result of the JetStream publish, then seq += 1
FileJsResult ==
    /\ pc = "ack"
    /\ mode = "file"
    /\ reply # "none"
    /\ log' = Append(log,
                LogLine(IF reply = "ack" THEN "JET_ACK"
                        ELSE "JET_PUBLISH_ERROR",
                        seq, subj, pos))
    /\ seq' = next_seq(seq)
    /\ reply' = "none"
    /\ envelope' = NoEnvelope
    /\ subj' = ""
    /\ pc' = "next"
    /\ UNCHANGED <<mode, jetstream, subj_prefix, source, pos, bus, flushes,
                   answers, exit>>

\* The core publish reached whatever the mode: the test of js_opt left out
FileNcPublish_any_mode ==
    /\ pc = "publish"
    /\ mode = "file"
    /\ bus' = Append(bus, Attempt("core", subj, envelope, pos))
    /\ \E ok \in BOOLEAN :
        IF ok
        THEN /\ pc' = "flush"
             /\ UNCHANGED <<log, exit>>
        ELSE Fatal(pos)
    /\ UNCHANGED <<mode, jetstream, subj_prefix, source, pos, seq, envelope,
                   subj, reply, flushes, answers>>

\* The flush left out: PUB is printed as soon as the send has returned
FileNcPublish_no_flush ==
    /\ pc = "publish"
    /\ mode = "file"
    /\ ~jetstream
    /\ bus' = Append(bus, Attempt("core", subj, envelope, pos))
    /\ \E ok \in BOOLEAN :
        IF ok
        THEN /\ log' = Append(log, LogLine("PUB", seq, subj, pos))
             /\ seq' = next_seq(seq)
             /\ envelope' = NoEnvelope
             /\ subj' = ""
             /\ pc' = "next"
             /\ UNCHANGED exit
        ELSE /\ Fatal(pos)
             /\ UNCHANGED <<seq, envelope, subj>>
    /\ UNCHANGED <<mode, jetstream, subj_prefix, source, pos, reply, flushes,
                   answers>>

\* nc.publish(subj.clone(), packed.into()).await?
FileNcPublish ==
    /\ pc = "publish"
    /\ mode = "file"
    /\ ~jetstream
    /\ bus' = Append(bus, Attempt("core", subj, envelope, pos))
    /\ \E ok \in BOOLEAN :
        IF ok
        THEN /\ pc' = "flush"
             /\ UNCHANGED <<log, exit>>
        ELSE Fatal(pos)
    /\ UNCHANGED <<mode, jetstream, subj_prefix, source, pos, seq, envelope,
                   subj, reply, flushes, answers>>

\* nc.flush().await?, the PUB line, then seq += 1
FileNcFlush ==
    /\ pc = "flush"
    /\ mode = "file"
    /\ flushes' = Append(flushes, pos)
    /\ \E ok \in BOOLEAN :
        IF ok
        THEN /\ log' = Append(log, LogLine("PUB", seq, subj, pos))
             /\ seq' = next_seq(seq)
             /\ envelope' = NoEnvelope
             /\ subj' = ""
             /\ pc' = "next"
             /\ UNCHANGED exit
        ELSE /\ Fatal(pos)
             /\ UNCHANGED <<seq, envelope, subj>>
    /\ UNCHANGED <<mode, jetstream, subj_prefix, source, pos, reply, bus,
                   answers>>

(***************************************************************************)
(* run_ws_mode                                                             *)
(***************************************************************************)
\* Url::parse(ws_url)?, connect_async(url).await?, the split and seq = 0
WsConnect ==
    /\ pc = "open"
    /\ mode = "ws"
    /\ \E r \in {"bad_url", "refused", "ok"} :
        IF r = "ok"
        THEN /\ pc' = "next"
             /\ UNCHANGED <<log, exit>>
        ELSE Fatal(0)
    /\ UNCHANGED <<mode, jetstream, subj_prefix, source, pos, seq, envelope,
                   subj, reply, bus, flushes, answers>>

\* The text of a text or binary frame
frame_text(item) ==
    IF item.kind = "binary" THEN from_utf8_lossy(item.data) ELSE item.data

\* The pass of run_ws_mode with two of its branches open to change: control
\* frames skipped or read as text, a parse error logged or returned with `?`
WsNextWith(skip_control, parse_error_returns) ==
    /\ pc = "next"
    /\ mode = "ws"
    /\ IF pos = Len(source)
       THEN /\ pc' = "done"
            /\ exit' = "ok"
            /\ UNCHANGED <<pos, log, envelope, subj>>
       ELSE LET item == source[pos + 1]
                parsed == from_str(frame_text(item))
                env == envelope_of(parsed.v, seq)
            IN  /\ pos' = pos + 1
                /\ CASE item.kind = "err" ->
                          /\ Fatal(pos + 1)
                          /\ UNCHANGED <<envelope, subj>>
                     [] item.kind = "control" /\ skip_control ->
                          UNCHANGED <<pc, exit, log, envelope, subj>>
                     [] item.kind \in {"text", "binary", "control"}
                            /\ ~(item.kind = "control" /\ skip_control)
                            /\ ~parsed.ok ->
                          IF parse_error_returns
                          THEN /\ Fatal(pos + 1)
                               /\ UNCHANGED <<envelope, subj>>
                          ELSE /\ log' = Append(log,
                                    LogLine("PARSE_ERROR", -1, "", pos + 1))
                               /\ UNCHANGED <<pc, exit, envelope, subj>>
                     [] OTHER ->
                          /\ envelope' = env
                          /\ subj' = subj_of(subj_prefix, env)
                          /\ pc' = "publish"
                          /\ UNCHANGED <<log, exit>>
    /\ UNCHANGED <<mode, jetstream, subj_prefix, source, seq, reply, bus,
                   flushes, answers>>

\* from_str(&text)? in run_ws_mode, as run_file_mode has it
WsNext_parse_returns == WsNextWith(TRUE, TRUE)

\* The else-continue of the frame test left out: a control frame is parsed
WsNext_control_parsed == WsNextWith(FALSE, FALSE)

\* One pass from the loop head to the publish call: read.next(), the frame
\* kind, from_str, the envelope and the subject.
WsNext ==
    /\ pc = "next"
    /\ mode = "ws"
    /\ IF pos = Len(source)
       THEN \* None: the loop ends and run_ws_mode returns Ok(())
            /\ pc' = "done"
            /\ exit' = "ok"
            /\ UNCHANGED <<pos, log, envelope, subj>>
       ELSE LET item == source[pos + 1]
                parsed == from_str(frame_text(item))
                env == envelope_of(parsed.v, seq)
            IN  /\ pos' = pos + 1
                /\ CASE item.kind = "err" ->
                          \* let msg = msg?; fails
                          /\ Fatal(pos + 1)
                          /\ UNCHANGED <<envelope, subj>>
                     [] item.kind = "control" ->
                          \* continue
                          UNCHANGED <<pc, exit, log, envelope, subj>>
                     [] item.kind \in {"text", "binary"} /\ ~parsed.ok ->
                          \* eprintln!("JSON parse error: {}", e); continue
                          /\ log' = Append(log,
                                LogLine("PARSE_ERROR", -1, "", pos + 1))
                          /\ UNCHANGED <<pc, exit, envelope, subj>>
                     [] OTHER ->
                          /\ envelope' = env
                          /\ subj' = subj_of(subj_prefix, env)
                          /\ pc' = "publish"
                          /\ UNCHANGED <<log, exit>>
    /\ UNCHANGED <<mode, jetstream, subj_prefix, source, seq, reply, bus,
                   flushes, answers>>

\* js.publish(subj.clone(), packed.into()) is called and awaited
WsJsPublish ==
    /\ pc = "publish"
    /\ mode = "ws"
    /\ jetstream
    /\ bus' = Append(bus, Attempt("js", subj, envelope, pos))
    /\ pc' = "ack"
    /\ UNCHANGED <<mode, jetstream, subj_prefix, source, pos, seq, envelope,
                   subj, reply, flushes, answers, log, exit>>

\* The match on the result of the JetStream publish, then seq += 1
WsJsResult ==
    /\ pc = "ack"
    /\ mode = "ws"
    /\ reply # "none"
    /\ log' = Append(log,
                LogLine(IF reply = "ack" THEN "JET_ACK"
                        ELSE "JET_PUBLISH_ERROR",
                        seq, subj, pos))
    /\ seq' = next_seq(seq)
    /\ reply' = "none"
    /\ envelope' = NoEnvelope
    /\ subj' = ""
    /\ pc' = "next"
    /\ UNCHANGED <<mode, jetstream, subj_prefix, source, pos, bus, flushes,
                   answers, exit>>

\* nc.publish(subj.clone(), packed.into()).await?
WsNcPublish ==
    /\ pc = "publish"
    /\ mode = "ws"
    /\ ~jetstream
    /\ bus' = Append(bus, Attempt("core", subj, envelope, pos))
    /\ \E ok \in BOOLEAN :
        IF ok
        THEN /\ pc' = "flush"
             /\ UNCHANGED <<log, exit>>
        ELSE Fatal(pos)
    /\ UNCHANGED <<mode, jetstream, subj_prefix, source, pos, seq, envelope,
                   subj, reply, flushes, answers>>

\* nc.flush().await?, the PUB line, then seq += 1
WsNcFlush ==
    /\ pc = "flush"
    /\ mode = "ws"
    /\ flushes' = Append(flushes, pos)
    /\ \E ok \in BOOLEAN :
        IF ok
        THEN /\ log' = Append(log, LogLine("PUB", seq, subj, pos))
             /\ seq' = next_seq(seq)
             /\ envelope' = NoEnvelope
             /\ subj' = ""
             /\ pc' = "next"
             /\ UNCHANGED exit
        ELSE /\ Fatal(pos)
             /\ UNCHANGED <<seq, envelope, subj>>
    /\ UNCHANGED <<mode, jetstream, subj_prefix, source, pos, reply, bus,
                   answers>>

(***************************************************************************)
(* The broker's side of a JetStream publish: it stores the message and     *)
(* acknowledges it, or it answers with an error (or the request fails or   *)
(* times out, which the client reports as an error as well).  The future   *)
(* of js.publish(..) is taken to resolve with this answer, which is how    *)
(* the Ok(ack) and Err(e) arms of the match read it.                       *)
(***************************************************************************)
BrokerAck ==
    /\ pc = "ack"
    /\ reply = "none"
    /\ answers' = Append(answers, Answer(envelope.seq_local, TRUE))
    /\ reply' = "ack"
    /\ UNCHANGED <<mode, jetstream, subj_prefix, source, pos, seq, pc,
                   envelope, subj, bus, flushes, log, exit>>

BrokerError ==
    /\ pc = "ack"
    /\ reply = "none"
    /\ answers' = Append(answers, Answer(envelope.seq_local, FALSE))
    /\ reply' = "err"
    /\ UNCHANGED <<mode, jetstream, subj_prefix, source, pos, seq, pc,
                   envelope, subj, bus, flushes, log, exit>>

Next ==
    \/ Connect
    \/ FileOpen
    \/ FileNext
    \/ FileJsPublish
    \/ FileJsResult
    \/ FileNcPublish
    \/ FileNcFlush
    \/ WsConnect
    \/ WsNext
    \/ WsJsPublish
    \/ WsJsResult
    \/ WsNcPublish
    \/ WsNcFlush
    \/ BrokerAck
    \/ BrokerError

Spec == Init /\ [][Next]_vars

(***************************************************************************)
(* Vocabulary of the properties                                            *)
(***************************************************************************)
Range(f) == {f[i] : i \in DOMAIN f}

\* The items pulled so far
Pulled == 1..pos

\* Item i is a blank line of the file
IsBlankLine(i) ==
    /\ mode = "file"
    /\ source[i].kind = "line"
    /\ source[i].data \in {"", "  "}

\* Item i is a raw record: a non-blank line, or a text or binary message
IsRecord(i) ==
    IF mode = "file"
    THEN source[i].kind = "line" /\ ~IsBlankLine(i)
    ELSE source[i].kind \in {"text", "binary"}

\* The text item i carries
TextOf(i) ==
    IF source[i].kind = "binary"
    THEN (IF source[i].data = BIN_BTC THEN BTC_LINE ELSE REPLACEMENT_TEXT)
    ELSE source[i].data

\* Record i is a JSON document / is not one
WellFormed(i) == IsRecord(i) /\ from_str(TextOf(i)).ok
Malformed(i) == IsRecord(i) /\ ~from_str(TextOf(i)).ok

\* The "symbol" member of the document of record i
SourceSymbol(i) == from_str(TextOf(i)).v.symbol

\* The record the loop holds between the loop head and the end of the pass
InFlight(i) == i = pos /\ pc \in {"publish", "ack", "flush"}

\* Records that passed normalization: an envelope was built for them
Normalized == {i \in Pulled : WellFormed(i)}

UpTo(n) == [i \in 1..n |-> i - 1]

AttemptSeqs == [i \in DOMAIN bus |-> bus[i].seq_local]

SeqLines == SelectSeq(log, LAMBDA l :
                l.kind \in {"PUB", "JET_ACK", "JET_PUBLISH_ERROR"})
LoggedSeqs == [i \in DOMAIN SeqLines |-> SeqLines[i].seq_local]

\* The lines the loop prints for record i; the report of the error main
\* returns is the line of a fatal condition, not of a record
RecordLines(i) ==
    {j \in DOMAIN log :
        /\ log[j].rec = i
        /\ log[j].kind \in {"PUB", "JET_ACK", "JET_PUBLISH_ERROR",
                            "PARSE_ERROR"}}

\* C1: at the end of a run the seq_local values of the publish attempts, and
\* those of the log lines, are 0, 1, ..., N-1 in publish order, N being the
\* number of records that passed normalization.
C1_SeqLocalContiguous ==
    pc = "done" =>
        /\ AttemptSeqs = UpTo(Cardinality(Normalized))
        /\ LoggedSeqs = UpTo(Cardinality(Normalized))

\* C2: in file mode a line that is not JSON is skipped with a logged parse
\* error, consumes no sequence number and does not end the run.
C2_MalformedLineSkipped ==
    (mode = "file" /\ pos > 0 /\ Malformed(pos)) =>
        /\ exit # "err"
        /\ log # <<>>
        /\ log[Len(log)].kind = "PARSE_ERROR"
        /\ log[Len(log)].rec = pos
        /\ seq = Len(bus)

\* C3: in best-effort mode a failed send or flush is reported for its record
\* and does not end the run.
C3_BestEffortFailureContinues ==
    (~jetstream /\ bus # <<>>) =>
        ~(/\ exit = "err"
          /\ log[Len(log)].kind = "FATAL"
          /\ log[Len(log)].rec = bus[Len(bus)].rec)

\* seq_local of the messages the broker has stored
Stored == {a.seq_local : a \in {b \in Range(answers) : b.ack}}

\* The JetStream publish of attempt i has been answered with an error, and
\* the loop has gone through the match on that answer.
Handled(i) == i < Len(bus) \/ pc # "ack"
Rejected(i) == Answer(bus[i].seq_local, FALSE) \in Range(answers)

C5_SubjectFromSymbol ==
    \A i \in DOMAIN bus :
        LET b == bus[i]
            sym == SourceSymbol(b.rec)
        IN  /\ b.subj = subj_prefix \o "." \o b.symbol
            /\ (sym.t \in {"absent", "null", "num"} => b.symbol = "UNKNOWN")
            /\ (sym.t = "str" => b.symbol = sym.s)

\* A record without a string symbol and a record with one, both published
C5_Witness ==
    /\ \E i \in DOMAIN bus : SourceSymbol(bus[i].rec).t \in {"null", "num"}
    /\ \E i \in DOMAIN bus : SourceSymbol(bus[i].rec) = JStr("BTC")

\* C6: a record whose symbol is the empty string is published with symbol
\* "UNKNOWN" under the subject subj_prefix.UNKNOWN.
C6_EmptySymbolIsUnknown ==
    \A i \in DOMAIN bus :
        SourceSymbol(bus[i].rec) = JStr("") =>
            /\ bus[i].symbol = "UNKNOWN"
            /\ bus[i].subj = subj_prefix \o ".UNKNOWN"

\* Lines before line r that are not blank
NonBlankBefore(r) == Cardinality({j \in 1..(r - 1) : ~IsBlankLine(j)})

\* C7: in file mode no log line and no publish belongs to a blank line, and
\* blank lines do not count: a published record's seq_local, and the counter
\* at the loop head, is the number of non-blank lines read before.
C7_BlankLineNoEffect ==
    mode = "file" =>
        /\ \A j \in DOMAIN log :
                log[j].rec > 0 => ~IsBlankLine(log[j].rec)
        /\ \A i \in DOMAIN bus :
                /\ ~IsBlankLine(bus[i].rec)
                /\ bus[i].seq_local = NonBlankBefore(bus[i].rec)
        /\ (pc = "next" => seq = NonBlankBefore(pos + 1))

\* A blank line between two published records
C7_Witness ==
    /\ mode = "file"
    /\ \E r \in Pulled :
        /\ IsBlankLine(r)
        /\ \E i \in DOMAIN bus : bus[i].rec < r
        /\ \E i \in DOMAIN bus : bus[i].rec > r

\* C8: every record pulled from the source has exactly one per-record log
\* line once its pass through the loop is over (none while it is in flight),
\* whether it failed to parse, failed to publish or was published.
C8_OneLogLinePerRecord ==
    \A i \in Pulled :
        IsRecord(i) =>
            Cardinality(RecordLines(i)) = IF InFlight(i) THEN 0 ELSE 1

C10_PublishOrder ==
    \A i, j \in DOMAIN bus :
        i < j => (bus[i].rec < bus[j].rec
                  /\ bus[i].seq_local < bus[j].seq_local)

\* Three records published
C10_Witness == Len(bus) = 3
\* The lines printed for item i, and the publishes made for it
LinesFor(i) == {j \in DOMAIN log : log[j].rec = i}
AttemptsFor(i) == {j \in DOMAIN bus : bus[j].rec = i}

\* C11: in socket mode a message that is not JSON gets one line, the parse
\* error, and no publish; it leaves the counter where it was and the loop
\* goes on.
C11_WsParseErrorLogged ==
    mode = "ws" =>
        \A i \in Pulled : Malformed(i) =>
            /\ Cardinality(LinesFor(i)) = 1
            /\ \A j \in LinesFor(i) : log[j].kind = "PARSE_ERROR"
            /\ AttemptsFor(i) = {}
            /\ (i = pos =>
                    /\ seq = Len(bus)
                    /\ exit # "err"
                    /\ pc \in {"next", "done"})

\* A message that is not JSON between two published records
C11_Witness ==
    /\ mode = "ws"
    /\ \E i \in Pulled :
        /\ Malformed(i)
        /\ \E j \in DOMAIN bus : bus[j].rec < i
        /\ \E j \in DOMAIN bus : bus[j].rec > i

\* C12: in socket mode a control frame gets no line and no publish; it
\* leaves the counter where it was and the loop goes on.
C12_ControlFrameSkipped ==
    mode = "ws" =>
        \A i \in Pulled : source[i].kind = "control" =>
            /\ LinesFor(i) = {}
            /\ AttemptsFor(i) = {}
            /\ (i = pos =>
                    /\ seq = Len(bus)
                    /\ exit # "err"
                    /\ pc \in {"next", "done"})

\* A control frame between two published records
C12_Witness ==
    /\ mode = "ws"
    /\ \E i \in Pulled :
        /\ source[i].kind = "control"
        /\ \E j \in DOMAIN bus : bus[j].rec < i
        /\ \E j \in DOMAIN bus : bus[j].rec > i

\* C13: in socket mode a read error is the last item pulled: the run ends
\* there with an error and nothing is published after it; a run that ends
\* with success has pulled the whole stream and met no read error.
C13_WsReadErrorEndsRun ==
    mode = "ws" =>
        /\ \A i \in Pulled : source[i].kind = "err" =>
                /\ i = pos
                /\ pc = "done"
                /\ exit = "err"
                /\ \A j \in DOMAIN bus : bus[j].rec < i
        /\ (exit = "ok" =>
                /\ pos = Len(source)
                /\ \A i \in DOMAIN source : source[i].kind # "err")

\* A read error after a published record, with messages left in the stream
C13_Witness ==
    /\ mode = "ws"
    /\ pos > 0
    /\ pos < Len(source)
    /\ source[pos].kind = "err"
    /\ bus # <<>>
\* Setup failed: the bus connection, the opening of the file, the parsing of
\* the socket URL or the socket connection returned an error
SetupFailed == \E j \in DOMAIN log : log[j].kind = "FATAL" /\ log[j].rec = 0

\* C14: a file-mode run over a readable file, once set up, ends with exit
\* status 0 and with every line of the file read.
C14_FileRunEndsOk ==
    (/\ mode = "file"
     /\ pc = "done"
     /\ ~SetupFailed
     /\ \A i \in DOMAIN source : source[i].kind # "err") =>
        /\ exit = "ok"
        /\ pos = Len(source)

\* C15: a setup failure ends the run with an error before any record is
\* handled: nothing is pulled from the source, the counter is still 0,
\* nothing is published and the failure is the only line printed.
C15_SetupFailureFatal ==
    SetupFailed =>
        /\ pc = "done"
        /\ exit = "err"
        /\ pos = 0
        /\ seq = 0
        /\ bus = <<>>
        /\ flushes = <<>>
        /\ Len(log) = 1

\* A setup failure of a socket run whose stream had a record to give
C15_Witness ==
    /\ SetupFailed
    /\ mode = "ws"
    /\ source # <<>>
    /\ WellFormed(1)
\* run_file_mode as a function of the lines it is given and of what the bus
\* makes of each publish (bus_ok[k]: the k-th send and its flush succeed):
\* the publishes it makes, in order, and how it ends.  i is the line the
\* loop is at and s its counter.
RECURSIVE file_loop(_, _, _, _)
file_loop(lines, i, s, bus_ok) ==
    IF i > Len(lines)
    THEN [attempts |-> <<>>, exit |-> "ok"]
    ELSE IF trim_is_empty(lines[i])
    THEN file_loop(lines, i + 1, s, bus_ok)
    ELSE IF ~from_str(lines[i]).ok
    THEN [attempts |-> <<>>, exit |-> "err"]
    ELSE LET env == envelope_of(from_str(lines[i]).v, s)
             a == [subj |-> subj_of(subj_prefix, env), seq_local |-> s]
             rest == file_loop(lines, i + 1, next_seq(s), bus_ok)
         IN  IF jetstream \/ bus_ok[s + 1]
             THEN [attempts |-> <<a>> \o rest.attempts, exit |-> rest.exit]
             ELSE [attempts |-> <<a>>, exit |-> "err"]

\* The texts the source has given, when all of its items are texts
AllTexts == \A i \in DOMAIN source : source[i].kind \in {"line", "text"}
SourceTexts == [i \in DOMAIN source |-> source[i].data]

\* What the bus made of the k-th publish of this run
BusOk ==
    [k \in 1..(Len(source) + 1) |->
        IF k \in DOMAIN bus
        THEN \E j \in DOMAIN log :
                log[j].rec = bus[k].rec /\ log[j].kind \in {"PUB", "JET_ACK"}
        ELSE TRUE]

\* The publishes of this run and how it ended
RunResult ==
    [attempts |-> [k \in DOMAIN bus |->
                    [subj |-> bus[k].subj, seq_local |-> bus[k].seq_local]],
     exit |-> exit]

\* file_loop and the steps of run_file_mode tell the same run
FileLoopIsFileRun ==
    (mode = "file" /\ pc = "done" /\ ~SetupFailed /\ AllTexts) =>
        file_loop(SourceTexts, 1, 0, BusOk) = RunResult

\* C16: a socket run over text messages makes the publishes, and ends the
\* way, run_file_mode does on the same texts with the same bus.
C16_VariantsInterchangeable ==
    (mode = "ws" /\ pc = "done" /\ ~SetupFailed /\ AllTexts) =>
        file_loop(SourceTexts, 1, 0, BusOk) = RunResult
\* The flush calls made for item i
FlushesFor(i) == {j \in DOMAIN flushes : flushes[j] = i}

\* C17: no item of the source is published or flushed more than once, and no
\* seq_local is sent twice, whatever became of the publishes.
C17_NoRetry ==
    /\ \A r \in Pulled :
        /\ Cardinality(AttemptsFor(r)) <= 1
        /\ Cardinality(FlushesFor(r)) <= 1
    /\ \A i, j \in DOMAIN bus :
        bus[i].seq_local = bus[j].seq_local => i = j

\* A finished run all of whose publishes, more than one, were rejected
C17_Witness ==
    /\ pc = "done"
    /\ exit = "ok"
    /\ Len(bus) >= 2
    /\ \A i \in DOMAIN bus : Rejected(i)

\* C18: a run with the durable flag makes JetStream publishes only and never
\* flushes; a run without it makes core publishes only, each followed by its
\* flush unless the send failed, and no JetStream publish is ever answered.
C18_ModeFixed ==
    /\ \A i \in DOMAIN bus :
        bus[i].api = IF jetstream THEN "js" ELSE "core"
    /\ (jetstream => flushes = <<>>)
    /\ (~jetstream =>
            /\ answers = <<>>
            /\ Len(bus) - Len(flushes) \in {0, 1}
            /\ \A k \in DOMAIN flushes : flushes[k] = bus[k].rec)

\* A best-effort run that has published and flushed three records
C18_Witness ==
    /\ ~jetstream
    /\ Len(bus) = 3
    /\ Len(flushes) = 3

\* Item r has its PUB line
Published(r) == \E j \in DOMAIN log : log[j].rec = r /\ log[j].kind = "PUB"

\* C19: in best-effort mode a PUB line is there only for a record that was
\* sent and flushed without error, with the seq_local it was sent with; no
\* item is pulled while an earlier record lacks its flush or its PUB line,
\* and at most one record is sent and not yet reported.
C19_FlushBeforeReport ==
    ~jetstream =>
        /\ \A j \in DOMAIN log : log[j].kind = "PUB" =>
                /\ \E k \in DOMAIN bus :
                        /\ bus[k].rec = log[j].rec
                        /\ bus[k].seq_local = log[j].seq_local
                /\ FlushesFor(log[j].rec) # {}
                /\ \A l \in LinesFor(log[j].rec) : log[l].kind # "FATAL"
        /\ \A k \in DOMAIN bus : bus[k].rec < pos =>
                /\ FlushesFor(bus[k].rec) # {}
                /\ Published(bus[k].rec)
        /\ Cardinality({k \in DOMAIN bus : ~Published(bus[k].rec)}) <= 1

\* Two records reported and a third sent, its flush pending
C19_Witness ==
    /\ ~jetstream
    /\ pc = "flush"
    /\ Cardinality({r \in Pulled : Published(r)}) = 2

\* The lines that report a completed publish step in the run's mode
Completed ==
    {j \in DOMAIN log :
        log[j].kind \in (IF jetstream THEN {"JET_ACK", "JET_PUBLISH_ERROR"}
                         ELSE {"PUB"})}

\* C20: whenever the loop comes to its head the counter is the number of
\* completed publish steps (PUB lines, or JET_ACK and JET_PUBLISH_ERROR
\* lines); the counter changes only by +1, and only in the step that ends a
\* pass which reached the publish.
C20_CounterCountsCompleted ==
    [][/\ (pc' = "next" => seq' = Cardinality(Completed'))
       /\ \/ seq' = seq
          \/ /\ seq' = seq + 1
             /\ pc \in {"ack", "flush"}
             /\ pc' = "next"]_vars

\* The loop at its head after two passes, one of them a rejected publish
C20_Witness ==
    /\ pc = "next"
    /\ seq = 2
    /\ \E j \in DOMAIN log : log[j].kind = "JET_PUBLISH_ERROR"
====
